---------------------------- MODULE Spec2Model ----------------------------
(***************************************************************************)
(* Model of the chat backend of the Unipile recruitment assistant          *)
(* (backend/main.py, backend/tools.py, backend/models.py).                 *)
(*                                                                         *)
(* A string is a sequence of symbols.  The system prompt is a sequence of  *)
(* literal blocks, a reply of the model a sequence of characters.  A       *)
(* message is a record; the set `has` names the optional keys present in  *)
(* it (a key whose value is None is dropped by dict(exclude_none=True)).   *)
(***************************************************************************)
EXTENDS Integers, Sequences, FiniteSets, TLC

\* ------------------------------------------------------------------ bounds
MaxTurns == 2       \* chat requests issued in one behaviour
MaxRounds == 2      \* tool rounds the modelled provider asks for in one behaviour
MaxMessages == 1    \* messages carried by one chat request

Turns == 1..MaxTurns
Users == {"u1", "u2"}
SessionOrder == <<"s1", "s2">>
SessionIds == {SessionOrder[i] : i \in 1..Len(SessionOrder)}

\* ------------------------------------------------------------ system prompt
\* SYSTEM_PROMPT as the sequence of its literal blocks.
checkpoint_block == "### Client Checkpoint (MANDATORY)"
checkpoint_replacement == "### Client Checkpoint (SKIPPED)"
step4_block == "## STEP 4 (on approval)"
step4_replacement == "## STEP 4 (EXECUTE IMMEDIATELY)"

SYSTEM_PROMPT == <<"## ROLE .. STEP 3", checkpoint_block, "---", step4_block, "STEP 5 .. QUALITY BAR">>

\* str.replace(old, new): every occurrence replaced, the string unchanged
\* when old does not occur.
Replace(s, old, new) == [i \in 1..Len(s) |-> IF s[i] = old THEN new ELSE s[i]]

Contains(s, block) == \E i \in 1..Len(s) : s[i] = block

\* The prompt chat() composes from the base template and the user's flag.
ComposePrompt(base, verify) ==
    IF verify THEN base
    ELSE Replace(Replace(Replace(base, checkpoint_block, checkpoint_replacement),
                         checkpoint_block, checkpoint_replacement),
                 step4_block, step4_replacement)

\* ---------------------------------------------------------------- messages
NoId == <<>>

\* A dict built by chat() or decoded from the stored JSON.
Dict(role, content) ==
    [kind |-> "dict", role |-> role, content |-> content, tool_calls |-> <<>>,
     tool_call_id |-> NoId, has |-> {"content"}]

ToolOutput(id, content) ==
    [kind |-> "dict", role |-> "tool", content |-> content, tool_calls |-> <<>>,
     tool_call_id |-> id, has |-> {"content", "tool_call_id"}]

\* msg.get("content"): None when the key is absent.
HasContent(msg, content) == "content" \in msg.has /\ msg.content = content

\* ------------------------------------------------- the stored history text
\* The history column holds json.dumps of the message dicts; chat() reads it
\* back with json.loads.  A JSON object is the sequence of its key/value
\* pairs: a dict has a pair for each key it holds and for no other.
Keys == <<"role", "content", "tool_calls", "tool_call_id">>

KeysOf(msg) ==
    LET Held(key) == key = "role" \/ key \in msg.has
    IN  SelectSeq(Keys, Held)

ValueOf(msg, key) ==
    CASE key = "role" -> msg.role
      [] key = "content" -> msg.content
      [] key = "tool_calls" -> msg.tool_calls
      [] key = "tool_call_id" -> msg.tool_call_id

json_dumps_message(msg) ==
    [i \in 1..Len(KeysOf(msg)) |-> <<KeysOf(msg)[i], ValueOf(msg, KeysOf(msg)[i])>>]

\* json.dumps of a list of message dicts.
json_dumps_history(history) == [i \in 1..Len(history) |-> json_dumps_message(history[i])]

\* obj.get(key): the value of the key, `default` when the object has none.
Get(obj, key, default) ==
    IF \E i \in 1..Len(obj) : obj[i][1] = key
    THEN obj[CHOOSE i \in 1..Len(obj) : obj[i][1] = key][2]
    ELSE default

\* A variant that gives every decoded message a tool_calls list.
json_loads_message_defaulting(obj) ==
    [kind |-> "dict",
     role |-> Get(obj, "role", ""),
     content |-> Get(obj, "content", <<>>),
     tool_calls |-> Get(obj, "tool_calls", <<>>),
     tool_call_id |-> Get(obj, "tool_call_id", NoId),
     has |-> ({obj[i][1] : i \in 1..Len(obj)} \ {"role"}) \cup {"tool_calls"}]

json_loads_message(obj) ==
    [kind |-> "dict",
     role |-> Get(obj, "role", ""),
     content |-> Get(obj, "content", <<>>),
     tool_calls |-> Get(obj, "tool_calls", <<>>),
     tool_call_id |-> Get(obj, "tool_call_id", NoId),
     has |-> {obj[i][1] : i \in 1..Len(obj)} \ {"role"}]

\* json.loads of the stored text.
json_loads_history(text) == [i \in 1..Len(text) |-> json_loads_message(text[i])]

\* What chat() reads back from a row written with the list `history`.
Stored(history) == json_loads_history(json_dumps_history(history))

VARIABLES
    template,       \* SYSTEM_PROMPT (main.py:263)
    verify_json,    \* User.verify_json (models.py:15)
    db,             \* chat_sessions: session id -> row, or NoRow (models.py:19);
                    \* history is the stored text as json.loads reads it
    pc,             \* where each request is in chat() / generate()
    current_user,   \* the user of each request (main.py:583)
    session_id,     \* the session id each request works on (main.py:585)
    base,           \* the history each request created or loaded (main.py:635, 644)
    full_history,   \* the request's message list (main.py:658)
    message,        \* the last model response of the request (main.py:671)
    rounds,         \* passes of the while loop that ran tools (main.py:663)
    pos,            \* the offset i of generate() (main.py:714)
    out,            \* the fragments handed to the caller (main.py:715, 743)
    commits,        \* history writes committed by generate() (main.py:725)
    sent,           \* the HTTP requests the last tool round of each running
                    \* request issued (tools.py:14, 57, 134)
    users,          \* users: email -> row, or NoUser (models.py:8)
    tokens,         \* the emails login has issued an access token for (main.py:133)
    loop_messages,  \* the list `messages` of chat_loop (core.py:104)
    loop,           \* where chat_loop is (core.py:107)
    model_calls     \* model calls chat_loop made for the input at hand (core.py:116, 157)

\* The state of the accounts and the state of the console program.
accounts == <<users, tokens>>
console == <<loop_messages, loop, model_calls>>

\* The state of the chat requests.
chats == <<template, verify_json, db, pc, current_user, session_id, base,
           full_history, message, rounds, pos, out, commits, sent>>

vars == <<chats, accounts, console>>

NoRow == [user_id |-> "", history |-> <<>>]

\* The addresses people sign up with; the first is the one the startup seeds.
admin_email == "admin@example.com"
Emails == {admin_email, "a@example.com", "b@example.com"}
Passwords == {"admin123", "secret"}

NoUser == [hashed_password |-> "", is_admin |-> FALSE, is_approved |-> FALSE]
User(password, is_admin, is_approved) ==
    [hashed_password |-> password, is_admin |-> is_admin, is_approved |-> is_approved]

\* The server has started (the admin is seeded) and chat_loop has printed its
\* greeting.
Started ==
    /\ users = [e \in Emails |-> IF e = admin_email THEN User("admin123", TRUE, TRUE)
                                 ELSE NoUser]
    /\ tokens = {}
    /\ loop_messages = <<Dict("system", <<"core prompt">>)>>
    /\ loop = "input"
    /\ model_calls = 0
NoMessage == [kind |-> "object", role |-> "assistant", content |-> <<>>,
              tool_calls |-> <<>>, tool_call_id |-> NoId, has |-> {}]

Init ==
    /\ template = SYSTEM_PROMPT
    /\ verify_json = [u \in Users |-> FALSE]
    /\ db = [s \in SessionIds |-> NoRow]
    /\ pc = [t \in Turns |-> "idle"]
    /\ current_user = [t \in Turns |-> "u1"]
    /\ session_id = [t \in Turns |-> "s1"]
    /\ base = [t \in Turns |-> <<>>]
    /\ full_history = [t \in Turns |-> <<>>]
    /\ message = [t \in Turns |-> NoMessage]
    /\ rounds = [t \in Turns |-> 0]
    /\ pos = [t \in Turns |-> 0]
    /\ out = [t \in Turns |-> <<>>]
    /\ commits = [t \in Turns |-> 0]
    /\ sent = [t \in Turns |-> <<>>]
    /\ Started

\* ------------------------------------------------------------ chat(): entry
\* The except clause of chat(): one fragment, "Error: " and str(e).
ErrorFragment(e) == <<"Error: ", e>>

\* current_history[-2:]
LastTwo(h) == SubSeq(h, IF Len(h) > 2 THEN Len(h) - 1 ELSE 1, Len(h))

\* The merge of the request's messages into the loaded history: only the
\* last one, unless a message of the same role and content is among the
\* last two.
\* A variant of Merge that appends every message of the request.
Merge_extending(history, incoming_messages) == history \o incoming_messages

Merge(history, incoming_messages) ==
    IF incoming_messages = <<>> THEN history
    ELSE LET last_incoming == incoming_messages[Len(incoming_messages)]
             dup == \E i \in 1..Len(LastTwo(history)) :
                        /\ LastTwo(history)[i].role = last_incoming.role
                        /\ HasContent(LastTwo(history)[i], last_incoming.content)
         IN  IF dup THEN history ELSE Append(history, last_incoming)

\* A variant that keeps the system prompt a loaded history came with.
UpdatePrompt_keeping(history, prompt) == history

\* The system prompt of a loaded history is replaced by the composed one.
UpdatePrompt(history, prompt) ==
    IF history # <<>> /\ history[1].role = "system"
    THEN [history EXCEPT ![1].content = prompt]
    ELSE history

\* str(uuid.uuid4()): an id that names no row.  Ids are opaque, so the first
\* unused one stands for any of them.
Unused == {i \in 1..Len(SessionOrder) : db[SessionOrder[i]] = NoRow}
Fresh == {SessionOrder[i] : i \in {j \in Unused : \A k \in Unused : j <= k}}

\* request.session_id or str(uuid.uuid4())
RequestedIds(given) == IF given = "" THEN Fresh ELSE {given}

\* chat() from its entry to the first model call.
ChatStart(t, user, given, messages) ==
    /\ pc[t] = "idle"
    /\ \A u \in Turns : u < t => pc[u] # "idle"
    /\ \E sid \in RequestedIds(given) :
         LET prompt == ComposePrompt(template, verify_json[user])
             found == db[sid] # NoRow /\ db[sid].user_id = user
             created == <<Dict("system", prompt)>>
         IN  /\ current_user' = [current_user EXCEPT ![t] = user]
             /\ session_id' = [session_id EXCEPT ![t] = sid]
             /\ IF ~found /\ db[sid] # NoRow
                THEN \* the INSERT violates the primary key of chat_sessions
                     /\ pc' = [pc EXCEPT ![t] = "error"]
                     /\ out' = [out EXCEPT ![t] = <<ErrorFragment("IntegrityError")>>]
                     /\ UNCHANGED <<db, base, full_history>>
                ELSE /\ pc' = [pc EXCEPT ![t] = "await_model"]
                     /\ db' = IF found THEN db
                              ELSE [db EXCEPT ![sid] = [user_id |-> user,
                                                        history |-> Stored(created)]]
                     /\ base' = [base EXCEPT ![t] = IF found THEN db[sid].history ELSE created]
                     /\ full_history' = [full_history EXCEPT ![t] =
                            Merge(IF found THEN UpdatePrompt(db[sid].history, prompt) ELSE created,
                                  messages)]
                     /\ UNCHANGED out
    /\ UNCHANGED <<accounts, console, template, sent, verify_json, message, rounds, pos, commits>>

\* ------------------------------------------------------------------- tools
\* The environment of a tool call: the state of the network and the
\* settings os.getenv finds with a value.
Settings == {"LINKEDIN_ACCOUNT_ID", "UNIPILE_DSN", "UNIPILE_API_KEY"}

Env(net, settings) == [net |-> net, settings |-> settings]

\* The environments with every setting in place.
Envs == {Env(net, Settings) : net \in {"up", "down"}}

\* A JSON object is the sequence of its key/value pairs (see Get above); the
\* dict operations the executors use on one.
Has(obj, key) == \E i \in 1..Len(obj) : obj[i][1] = key

Del(obj, key) ==
    LET Other(pair) == pair[1] # key
    IN  SelectSeq(obj, Other)

Set(obj, key, value) ==
    IF Has(obj, key)
    THEN [i \in 1..Len(obj) |-> IF obj[i][1] = key THEN <<key, value>> ELSE obj[i]]
    ELSE Append(obj, <<key, value>>)

\* An HTTP request: params= is the query, json= the body.
Request(method, url, query, body) ==
    [method |-> method, url |-> url, query |-> query, body |-> body]

default_limit == 20
max_limit == 50

Toronto == <<[id |-> "100025096", priority |-> "MUST_HAVE"]>>

\* A variant of the request of search_linkedin that sends the body as the
\* caller gave it.
search_request_passing(params) ==
    Request("POST", "/api/v1/linkedin/search",
            <<<<"account_id", "LINKEDIN_ACCOUNT_ID">>,
              <<"limit", Get(params, "limit", default_limit)>>>>,
            params)

\* The request search_linkedin builds from params.
search_request(params) ==
    LET limit == Get(params, "limit", default_limit)
        copy == params
        cleaned == IF Has(copy, "limit") THEN Del(copy, "limit") ELSE copy
        enforced == Set(Set(cleaned, "api", "recruiter"), "category", "people")
        body_params == IF ~Has(enforced, "location") \/ Get(enforced, "location", <<>>) = <<>>
                       THEN Set(enforced, "location", Toronto)
                       ELSE enforced
    IN  Request("POST", "/api/v1/linkedin/search",
                <<<<"account_id", "LINKEDIN_ACCOUNT_ID">>,
                  <<"limit", IF limit < max_limit THEN limit ELSE max_limit>>>>,
                body_params)

\* What an executor returns, or the exception it raises; each catches the
\* faults of its own request.  `sent` holds the HTTP requests it issued and
\* `requests` counts them; `params` is the caller's mapping after the call.
fetch_unipile_spec(env) ==
    LET request == <<Request("GET", "linkedincontroller_search.md", <<>>, <<>>)>>
    IN  IF env.net = "up"
        THEN [raised |-> "", error |-> FALSE, body |-> "spec", requests |-> 1, sent |-> request]
        ELSE [raised |-> "", error |-> TRUE, body |-> "Failed to fetch API spec",
              requests |-> 1, sent |-> request]

search_linkedin(params, env) ==
    IF env.settings # Settings
    THEN [raised |-> "", error |-> TRUE, body |-> "Missing configuration", requests |-> 0,
          sent |-> <<>>, params |-> params]
    ELSE IF env.net = "up"
    THEN [raised |-> "", error |-> FALSE, body |-> "candidates", requests |-> 1,
          sent |-> <<search_request(params)>>, params |-> params]
    ELSE [raised |-> "", error |-> TRUE, body |-> "An error occurred", requests |-> 1,
          sent |-> <<search_request(params)>>, params |-> params]

\* The value of location_name is no text: location_name.upper() raises.
NotText(location_name) == location_name = "{location_name: []}"

\* The alias check reads location_name.upper() before the settings are
\* looked at.
resolve_linkedin_location(location_name, env) ==
    LET request == <<Request("GET", "/api/v1/linkedin/search/parameters",
                          <<<<"account_id", "LINKEDIN_ACCOUNT_ID">>, <<"api", "linkedin">>,
                            <<"type", "LOCATION">>, <<"keywords", location_name>>>>,
                          <<>>)>>
    IN  IF NotText(location_name)
        THEN [raised |-> "AttributeError", error |-> FALSE, body |-> "", requests |-> 0,
              sent |-> <<>>]
        ELSE IF env.settings # Settings
        THEN [raised |-> "", error |-> TRUE, body |-> "Missing configuration", requests |-> 0,
              sent |-> <<>>]
        ELSE IF env.net = "up"
        THEN [raised |-> "", error |-> FALSE, body |-> "matches", requests |-> 1, sent |-> request]
        ELSE [raised |-> "", error |-> TRUE, body |-> "Location resolution failed",
              requests |-> 1, sent |-> request]

\* json.dumps(result): the text of a result names its error field, if any.
json_dumps(result) == <<IF result.error THEN "{\"error\": ..}" ELSE "{..}", result.body>>

\* json.loads(arguments) raises on text that is no JSON.
JsonLoadsRaises(arguments) == arguments = "malformed"
\* args["location_name"] raises when the key is missing.
KeyMissing(arguments) == arguments = "no location_name"
\* min(params.get("limit", 20), 50) raises when the limit is no number.
LimitNotNumber(arguments) == arguments = "{limit: \"ten\"}"

\* The arguments of a search, as the model writes them, and what json.loads
\* makes of them.
SearchArguments ==
    {"{}", "{keywords}", "{limit: 10, location: []}", "{limit: 50}",
     "{limit: 100, api: classic, category: jobs}", "{keywords, location: [102]}"}

json_loads(arguments) ==
    CASE arguments = "{keywords}" -> <<<<"keywords", "python developer">>>>
      [] arguments = "{limit: 10, location: []}" -> <<<<"limit", 10>>, <<"location", <<>>>>>>
      [] arguments = "{limit: 50}" -> <<<<"limit", 50>>>>
      [] arguments = "{limit: 100, api: classic, category: jobs}" ->
            <<<<"limit", 100>>, <<"api", "classic">>, <<"category", "jobs">>>>
      [] arguments = "{keywords, location: [102]}" ->
            <<<<"keywords", "python developer">>,
              <<"location", <<[id |-> "102", priority |-> "MUST_HAVE"]>>>>>>
      [] OTHER -> <<>>

\* The tool output chat() appends for a result, unless the executor raised.
Output(tool_call, result) ==
    IF result.raised # "" THEN [raised |-> result.raised, outputs |-> <<>>, sent |-> result.sent]
    ELSE [raised |-> "", outputs |-> <<ToolOutput(tool_call.id, json_dumps(result))>>,
          sent |-> result.sent]

\* One pass of the for loop of chat() over one tool call: the call raises
\* (raised names the exception), or appends its output, or (no branch
\* matches the name) appends nothing.
ExecuteTool(tool_call, env) ==
    CASE tool_call.name = "fetch_unipile_spec" ->
            Output(tool_call, fetch_unipile_spec(env))
      [] tool_call.name = "search_linkedin" ->
            IF JsonLoadsRaises(tool_call.arguments)
            THEN [raised |-> "JSONDecodeError", outputs |-> <<>>, sent |-> <<>>]
            ELSE IF LimitNotNumber(tool_call.arguments) /\ env.settings = Settings
            THEN [raised |-> "TypeError", outputs |-> <<>>, sent |-> <<>>]
            ELSE Output(tool_call, search_linkedin(json_loads(tool_call.arguments), env))
      [] tool_call.name = "resolve_linkedin_location" ->
            IF JsonLoadsRaises(tool_call.arguments)
            THEN [raised |-> "JSONDecodeError", outputs |-> <<>>, sent |-> <<>>]
            ELSE IF KeyMissing(tool_call.arguments)
            THEN [raised |-> "KeyError", outputs |-> <<>>, sent |-> <<>>]
            ELSE Output(tool_call, resolve_linkedin_location(tool_call.arguments, env))
      [] OTHER -> [raised |-> "", outputs |-> <<>>, sent |-> <<>>]

\* The for loop over message.tool_calls: tool_outputs, unless a call raises.
RECURSIVE ExecuteTools(_, _)
ExecuteTools(tool_calls, env) ==
    IF tool_calls = <<>> THEN [raised |-> "", outputs |-> <<>>, sent |-> <<>>]
    ELSE LET first == ExecuteTool(Head(tool_calls), env)
             rest == ExecuteTools(Tail(tool_calls), env)
         IN  IF first.raised # ""
             THEN [raised |-> first.raised, outputs |-> <<>>, sent |-> first.sent]
             ELSE IF rest.raised # ""
             THEN [raised |-> rest.raised, outputs |-> <<>>, sent |-> first.sent \o rest.sent]
             ELSE [raised |-> "", outputs |-> first.outputs \o rest.outputs,
                   sent |-> first.sent \o rest.sent]

\* ------------------------------------------------------- the model provider
\* response.choices[0].message: content is None or a text, tool_calls None
\* or a non-empty list.
Response(content, has_content, tool_calls) ==
    [kind |-> "object", role |-> "assistant", content |-> content,
     tool_calls |-> tool_calls, tool_call_id |-> NoId,
     has |-> (IF has_content THEN {"content"} ELSE {}) \cup
             (IF tool_calls # <<>> THEN {"tool_calls"} ELSE {})]

Call(t, n, k, name, arguments) ==
    [id |-> <<t, n, k>>, name |-> name, arguments |-> arguments]

\* chunk_size of generate()
chunk_size == 50

Alphabet == <<"a", "b", "c">>
Text(n) == [i \in 1..n |-> Alphabet[(i % 3) + 1]]

\* The texts the modelled provider answers with: none, one that fits a
\* chunk, one that needs two chunks.
Texts == {Text(0), Text(chunk_size + 1)}

\* The tool-call lists the modelled provider answers with in round n of
\* turn t.
ToolCallLists(t, n) ==
    { <<Call(t, n, 1, "fetch_unipile_spec", "{}")>>,
      <<Call(t, n, 1, "search_linkedin", "malformed")>>,
      <<Call(t, n, 1, "resolve_linkedin_location", "no location_name")>>,
      <<Call(t, n, 1, "get_candidate", "{}")>>,
      <<Call(t, n, 1, "search_linkedin", "{keywords}"),
        Call(t, n, 2, "resolve_linkedin_location", "{location_name}")>> }

\* dict(exclude_none=True) of a message object; a dict is kept as it is.
serialize(msg) == [msg EXCEPT !.kind = "dict"]

\* A variant that stores the history without its first message, the way
\* get_session_history() hands it out.
serialize_history_dropping(history) ==
    [i \in 1..(Len(history) - 1) |-> serialize(history[i + 1])]

serialize_history(history) == [i \in 1..Len(history) |-> serialize(history[i])]

\* --------------------------------------------------------- chat(): the loop
\* The request is over: its local variables go out of scope.
Release(t) ==
    /\ base' = [base EXCEPT ![t] = <<>>]
    /\ full_history' = [full_history EXCEPT ![t] = <<>>]
    /\ message' = [message EXCEPT ![t] = NoMessage]
    /\ pos' = [pos EXCEPT ![t] = 0]
    /\ sent' = [sent EXCEPT ![t] = <<>>]

\* A variant that takes the text of a reply for a request of a tool: it runs
\* fetch_unipile_spec and calls the model again.
ModelReplies_recovering(t, content, has_content) ==
    /\ pc[t] = "await_model"
    /\ message' = [message EXCEPT ![t] = Response(content, has_content, <<>>)]
    /\ full_history' = [full_history EXCEPT ![t] =
           full_history[t] \o <<Response(content, has_content, <<>>),
                                ToolOutput(NoId, json_dumps(fetch_unipile_spec(Env("up", Settings))))>>]
    /\ UNCHANGED <<accounts, console, template, sent, verify_json, db, pc, current_user, session_id, base,
                   rounds, pos, out, commits>>

\* The model answers without tool calls: chat() leaves the loop and returns
\* the streaming response over generate().
ModelReplies(t, content, has_content) ==
    /\ pc[t] = "await_model"
    /\ message' = [message EXCEPT ![t] = Response(content, has_content, <<>>)]
    /\ pc' = [pc EXCEPT ![t] = "streaming"]
    /\ UNCHANGED <<accounts, console, template, sent, verify_json, db, current_user, session_id, base,
                   full_history, rounds, pos, out, commits>>

RECURSIVE Sum(_, _)
Sum(f, n) == IF n = 0 THEN 0 ELSE f[n] + Sum(f, n - 1)

\* The tool rounds the provider has asked for so far.
RoundsAsked == Sum(rounds, MaxTurns)

\* A variant of the tool round that sends the text of the response to the
\* caller.
ModelCallsTools_emitting(t, content, tool_calls, env) ==
    /\ pc[t] = "await_model"
    /\ RoundsAsked < MaxRounds
    /\ LET response == Response(content, content # <<>>, tool_calls)
           done == ExecuteTools(tool_calls, env)
       IN  IF done.raised # ""
           THEN /\ pc' = [pc EXCEPT ![t] = "error"]
                /\ out' = [out EXCEPT ![t] = <<ErrorFragment(done.raised)>>]
                /\ Release(t)
                /\ UNCHANGED rounds
           ELSE /\ message' = [message EXCEPT ![t] = response]
                /\ full_history' = [full_history EXCEPT ![t] =
                       Append(full_history[t], response) \o done.outputs]
                /\ rounds' = [rounds EXCEPT ![t] = rounds[t] + 1]
                /\ sent' = [sent EXCEPT ![t] = done.sent]
                /\ out' = [out EXCEPT ![t] = Append(out[t], content)]
                /\ UNCHANGED <<pc, base, pos>>
    /\ UNCHANGED <<accounts, console, template, verify_json, db, current_user, session_id, commits>>

\* The model answers with tool calls: chat() executes them, appends the
\* assistant message and the tool outputs and calls the model again; a call
\* that raises ends the turn in the except clause.
ModelCallsTools(t, content, tool_calls, env) ==
    /\ pc[t] = "await_model"
    /\ RoundsAsked < MaxRounds
    /\ LET response == Response(content, content # <<>>, tool_calls)
           done == ExecuteTools(tool_calls, env)
       IN  IF done.raised # ""
           THEN /\ pc' = [pc EXCEPT ![t] = "error"]
                /\ out' = [out EXCEPT ![t] = <<ErrorFragment(done.raised)>>]
                /\ Release(t)
                /\ UNCHANGED rounds
           ELSE /\ message' = [message EXCEPT ![t] = response]
                /\ full_history' = [full_history EXCEPT ![t] =
                       Append(full_history[t], response) \o done.outputs]
                /\ rounds' = [rounds EXCEPT ![t] = rounds[t] + 1]
                /\ sent' = [sent EXCEPT ![t] = done.sent]
                /\ UNCHANGED <<pc, out, base, pos>>
    /\ UNCHANGED <<accounts, console, template, verify_json, db, current_user, session_id, commits>>

\* A variant of the except clause that saves the history built so far.
ModelFault_persisting(t) ==
    /\ pc[t] = "await_model"
    /\ pc' = [pc EXCEPT ![t] = "error"]
    /\ out' = [out EXCEPT ![t] = <<ErrorFragment("APIError")>>]
    /\ db' = [db EXCEPT ![session_id[t]].history = Stored(serialize_history(full_history[t]))]
    /\ Release(t)
    /\ UNCHANGED <<accounts, console, template, verify_json, current_user, session_id, rounds, commits>>

\* client.chat.completions.create raises (timeout, provider error).
ModelFault(t) ==
    /\ pc[t] = "await_model"
    /\ pc' = [pc EXCEPT ![t] = "error"]
    /\ out' = [out EXCEPT ![t] = <<ErrorFragment("APIError")>>]
    /\ Release(t)
    /\ UNCHANGED <<accounts, console, template, verify_json, db, current_user, session_id, rounds, commits>>

\* -------------------------------------------------------------- generate()
\* message.content or ""
Content(msg) == IF "content" \in msg.has THEN msg.content ELSE <<>>

Min(a, b) == IF a < b THEN a ELSE b

\* A variant that slices content[i:i+chunk_size-1].
Chunk_dropping(content, i) ==
    SubSeq(content, i + 1, Min(i + chunk_size, Len(content)) - 1)

\* content[i:i+chunk_size]
Chunk(content, i) == SubSeq(content, i + 1, Min(i + chunk_size, Len(content)))

\* One pass of the for loop of generate(): the next chunk is handed to the
\* caller.
GenYield(t) ==
    /\ pc[t] = "streaming"
    /\ pos[t] < Len(Content(message[t]))
    /\ out' = [out EXCEPT ![t] = Append(out[t], Chunk(Content(message[t]), pos[t]))]
    /\ pos' = [pos EXCEPT ![t] = pos[t] + chunk_size]
    /\ UNCHANGED <<accounts, console, template, sent, verify_json, db, pc, current_user, session_id, base,
                   full_history, message, rounds, commits>>

\* The end of generate(): the final assistant message is appended and the
\* history is written to the row of the session.
GenPersist(t) ==
    /\ pc[t] = "streaming"
    /\ pos[t] >= Len(Content(message[t]))
    /\ LET final == Append(full_history[t], Dict("assistant", Content(message[t])))
       IN  db' = [db EXCEPT ![session_id[t]].history = Stored(serialize_history(final))]
    /\ commits' = [commits EXCEPT ![t] = commits[t] + 1]
    /\ pc' = [pc EXCEPT ![t] = "done"]
    /\ Release(t)
    /\ UNCHANGED <<accounts, console, template, verify_json, current_user, session_id, rounds, out>>

\* The caller disconnects while generate() is suspended after a fragment:
\* the generator is cancelled there and the rest of its body never runs.
Disconnect(t) ==
    /\ pc[t] = "streaming"
    /\ pos[t] > 0
    /\ pc' = [pc EXCEPT ![t] = "cancelled"]
    /\ Release(t)
    /\ UNCHANGED <<accounts, console, template, verify_json, db, current_user, session_id, rounds, out, commits>>

\* ------------------------------------------------------------ specification
\* A tool call id of the caller's choosing: the id of no call of the model.
CallerId == <<0, 0, 0>>

\* The messages a caller may send: ChatMessage takes any role, and a
\* tool_call_id with it.
Incoming ==
    { Dict("user", <<"q1">>), Dict("user", <<"q2">>), Dict("system", <<"q1">>),
      ToolOutput(CallerId, <<"q1">>) }

RECURSIVE SeqsUpTo(_, _)
SeqsUpTo(S, n) ==
    IF n = 0 THEN {<<>>}
    ELSE SeqsUpTo(S, n - 1) \cup
         {Append(q, x) : q \in {p \in SeqsUpTo(S, n - 1) : Len(p) = n - 1}, x \in S}

\* The users of the behaviours of Spec.
ChatUsers == {"u1"}

\* The session ids a caller sends: none, one of a stored session, or one
\* that names no row yet.
GivenIds == {""} \cup {s \in SessionIds : db[s] # NoRow} \cup Fresh

Start ==
    \E t \in Turns, user \in ChatUsers, given \in GivenIds,
       messages \in SeqsUpTo(Incoming, MaxMessages) :
        ChatStart(t, user, given, messages)

Replies == \E t \in Turns, content \in Texts :
               ModelReplies(t, content, content # <<>>)

Tools == \E t \in Turns, env \in Envs :
             \E tool_calls \in ToolCallLists(t, rounds[t] + 1) :
                 ModelCallsTools(t, <<>>, tool_calls, env)

Faults == \E t \in Turns : ModelFault(t)

Yields == \E t \in Turns : GenYield(t)

Persists == \E t \in Turns : GenPersist(t)

Disconnects == \E t \in Turns : Disconnect(t)

Next ==
    \/ Start
    \/ Replies
    \/ Tools
    \/ Faults
    \/ Yields
    \/ Persists
    \/ Disconnects

Spec == Init /\ [][Next]_vars

\* The base template edited out of step with the blocks chat() looks for.
Templates ==
    { SYSTEM_PROMPT,
      Replace(SYSTEM_PROMPT, checkpoint_block, "### Client Checkpoint (REQUIRED)"),
      Replace(SYSTEM_PROMPT, step4_block, "## STEP 4 (after approval)") }

InitTemplate ==
    /\ template \in Templates
    /\ verify_json = [u \in Users |-> FALSE]
    /\ db = [s \in SessionIds |-> NoRow]
    /\ pc = [t \in Turns |-> "idle"]
    /\ current_user = [t \in Turns |-> "u1"]
    /\ session_id = [t \in Turns |-> "s1"]
    /\ base = [t \in Turns |-> <<>>]
    /\ full_history = [t \in Turns |-> <<>>]
    /\ message = [t \in Turns |-> NoMessage]
    /\ rounds = [t \in Turns |-> 0]
    /\ pos = [t \in Turns |-> 0]
    /\ out = [t \in Turns |-> <<>>]
    /\ commits = [t \in Turns |-> 0]
    /\ sent = [t \in Turns |-> <<>>]
    /\ Started

\* Spec with the base template drawn from Templates.
SpecTemplate == InitTemplate /\ [][Next]_vars

\* ------------------------------------------------------------------ claims
Rows == {s \in SessionIds : db[s] # NoRow}
InFlight(t) == pc[t] \in {"await_model", "streaming"}
Persisting(t) == pc[t] = "streaming" /\ pc'[t] = "done"

\* C1: two turns on one session never interleave their history reads and
\* writes: when a turn writes the history, the stored history is still the
\* one the turn read, so nothing another turn persisted is overwritten.
C1_AtMostOneInFlight ==
    [][\A t \in Turns : Persisting(t) => db[session_id[t]].history = base[t]]_vars

\* The tool messages of history h after index i that answer the call id.
Answers(h, i, id) ==
    {j \in (i + 1)..Len(h) : h[j].role = "tool" /\ h[j].tool_call_id = id}

\* Every assistant message of h with tool calls is followed by exactly one
\* tool message per call.
AllAnswered(h) ==
    \A i \in 1..Len(h) :
        h[i].role = "assistant" =>
            \A k \in 1..Len(h[i].tool_calls) :
                Cardinality(Answers(h, i, h[i].tool_calls[k].id)) = 1

\* C2: whenever the loop issues a model call, every assistant message with
\* tool calls in the history sent is followed by exactly one tool message
\* per requested call, whatever the tool's name.
C2_ToolCallsAnswered ==
    \A t \in Turns : pc[t] = "await_model" => AllAnswered(full_history[t])

\* The message carries a tool call or a tool result of turn t.
FromTurn(msg, t) ==
    \/ \E k \in 1..Len(msg.tool_calls) : msg.tool_calls[k].id[1] = t
    \/ msg.tool_call_id # NoId /\ msg.tool_call_id[1] = t

NothingStoredFrom(t) ==
    \A s \in SessionIds : \A i \in 1..Len(db[s].history) : ~FromTurn(db[s].history[i], t)

\* C3: a turn aborted by a model call fault hands the caller exactly one
\* error fragment and has written no history: nothing of its tool rounds is
\* stored, and the step that aborts it, like every step of a turn but the
\* end of generate(), leaves the stored histories as they were.
C3_ModelFaultAborts ==
    /\ [](\A t \in Turns :
            (pc[t] = "error" /\ out[t] = <<ErrorFragment("APIError")>>) =>
                commits[t] = 0 /\ NothingStoredFrom(t))
    /\ [][\A t \in Turns :
            /\ (pc[t] = "await_model" /\ pc'[t] = "error") =>
                   Len(out'[t]) = 1 /\ db' = db
            /\ (pc[t] = "error") => (pc'[t] = "error" /\ out'[t] = out[t])
            /\ \A s \in Rows : db'[s].history # db[s].history =>
                   \E u \in Turns : Persisting(u) /\ session_id[u] = s]_vars

\* A turn on a stored session of several messages ran a tool round and was
\* then aborted by a model call fault.
C3_Witness ==
    \E t \in Turns :
        /\ pc[t] = "error"
        /\ out[t] = <<ErrorFragment("APIError")>>
        /\ rounds[t] >= 1
        /\ Len(db[session_id[t]].history) > 2

\* The loop configures no cap: a cap below the number of rounds the provider
\* asks for.
ToolLoopCap == MaxRounds - 1

\* C4: a turn performs at most the configured number of tool rounds.
C4_ToolLoopBound == \A t \in Turns : rounds[t] <= ToolLoopCap

\* The user messages of a history, in order.
RECURSIVE UserMessages(_)
UserMessages(h) ==
    IF h = <<>> THEN <<>>
    ELSE IF Head(h).role = "user" THEN <<Head(h)>> \o UserMessages(Tail(h))
    ELSE UserMessages(Tail(h))

\* C5: the same user message sent as the latest message of two requests in
\* direct succession is stored once: no stored history holds two copies of
\* a user message with no other user message between them.
C5_IdempotentAppend ==
    \A s \in Rows :
        LET um == UserMessages(db[s].history)
        IN  \A i \in 1..(Len(um) - 1) :
                ~(um[i].role = um[i + 1].role /\ um[i].content = um[i + 1].content)

RECURSIVE Flatten(_)
Flatten(chunks) == IF chunks = <<>> THEN <<>> ELSE Head(chunks) \o Flatten(Tail(chunks))

Last(h) == h[Len(h)]

\* C6: when generate() runs to its end, the fragments handed to the caller,
\* concatenated, are the content of the one assistant message the turn
\* appends to the stored history, and the history is written once, after
\* the last fragment: no write before, no fragment and no write after.
C6_StreamMatchesStored ==
    [][\A t \in Turns :
        /\ Persisting(t) =>
              LET stored == db'[session_id[t]].history
              IN  /\ stored = Append(serialize_history(full_history[t]), Last(stored))
                  /\ Last(stored).role = "assistant"
                  /\ Last(stored).tool_calls = <<>>
                  /\ HasContent(Last(stored), Flatten(out[t]))
                  /\ out'[t] = out[t]
                  /\ commits[t] = 0 /\ commits'[t] = 1
        /\ commits'[t] # commits[t] => Persisting(t)
        /\ pc[t] = "done" => (pc'[t] = "done" /\ out'[t] = out[t])]_vars

\* A turn ended after handing over two fragments.
C6_Witness == \E t \in Turns : pc[t] = "done" /\ Len(out[t]) = 2 /\ commits[t] = 1

\* C7: a turn whose caller disconnected has still persisted its history.
C7_DisconnectPersists == \A t \in Turns : pc[t] = "cancelled" => commits[t] = 1

\* C8: no turn is aborted by a fault of a tool dispatch (arguments that are
\* no JSON, a required argument missing).
C8_ToolFaultContained ==
    \A t \in Turns :
        pc[t] = "error" =>
            out[t] \notin {<<ErrorFragment("JSONDecodeError")>>, <<ErrorFragment("KeyError")>>}

\* C9: with the skip-approval flag and a block missing from the base
\* template, the turn does not proceed to the model.
C9_TemplateIntegrity ==
    \A t \in Turns :
        (InFlight(t) /\ ~verify_json[current_user[t]]) =>
            (Contains(template, checkpoint_block) /\ Contains(template, step4_block))

\* C10: every stored history starts with the system message, the composed
\* prompt, whatever the requests carried.
C10_SystemFirst ==
    \A s \in Rows :
        /\ db[s].history # <<>>
        /\ db[s].history[1].role = "system"
        /\ \E v \in BOOLEAN : db[s].history[1].content = ComposePrompt(template, v)

\* A stored history that took a message of role system from a request.
C10_Witness ==
    \E s \in Rows : \E i \in 2..Len(db[s].history) :
        db[s].history[i].role = "system" /\ Len(db[s].history) > 3

\* History `before` is a prefix of `after`, message by message, the content
\* of the system message at index 1 left aside.
IsPrefix(before, after) ==
    /\ Len(before) <= Len(after)
    /\ \A i \in 1..Len(before) :
           IF i = 1 THEN [after[i] EXCEPT !.content = <<>>] = [before[i] EXCEPT !.content = <<>>]
           ELSE after[i] = before[i]

\* C11: the stored history is append-only: when a turn writes the history,
\* the messages stored before the write are a prefix of the messages stored
\* after it, however the turns on the session interleave.
C11_AppendOnly ==
    [][\A t \in Turns :
        Persisting(t) => IsPrefix(db[session_id[t]].history, db'[session_id[t]].history)]_vars

\* The tool message at index j of history h answers a tool call of an
\* earlier assistant message of h that no tool message before j answered.
AnswersOpenCall(h, j) ==
    \E i \in 1..(j - 1) :
        /\ h[i].role = "assistant"
        /\ \E k \in 1..Len(h[i].tool_calls) : h[i].tool_calls[k].id = h[j].tool_call_id
        /\ \A m \in (i + 1)..(j - 1) :
               ~(h[m].role = "tool" /\ h[m].tool_call_id = h[j].tool_call_id)

\* C12: in every stored history, every tool message carries the id of a
\* tool call of an earlier assistant message that was not answered yet,
\* whether the turn loop produced the message or the caller sent it.
C12_ToolMessagesMatchCalls ==
    \A s \in Rows :
        \A j \in 1..Len(db[s].history) :
            db[s].history[j].role = "tool" =>
                /\ "tool_call_id" \in db[s].history[j].has
                /\ AnswersOpenCall(db[s].history, j)

\* ------------------------------------------------- the history round trip
MaxStored == 2      \* messages after the system message in a history to store

\* Messages of every shape a history holds: a caller's message, a caller's
\* message with an empty tool_calls list, the model's tool request (an
\* object without content), a tool output, a caller's tool message.
CodecMessages ==
    { Dict("user", <<"q1">>),
      [Dict("assistant", <<"q1">>) EXCEPT !.has = {"content", "tool_calls"}],
      Response(<<>>, FALSE, <<Call(1, 1, 1, "fetch_unipile_spec", "{}")>>),
      ToolOutput(<<1, 1, 1>>, <<"{..}", "spec">>),
      ToolOutput(CallerId, <<>>) }

\* Request 1 has left the loop with a reply and a history of any of these
\* messages; generate() is about to run.
InitCodec ==
    /\ template = SYSTEM_PROMPT
    /\ verify_json = [u \in Users |-> FALSE]
    /\ db = [s \in SessionIds |->
               IF s = "s1"
               THEN [user_id |-> "u1",
                     history |-> <<Dict("system", ComposePrompt(SYSTEM_PROMPT, FALSE))>>]
               ELSE NoRow]
    /\ pc = [t \in Turns |-> IF t = 1 THEN "streaming" ELSE "idle"]
    /\ current_user = [t \in Turns |-> "u1"]
    /\ session_id = [t \in Turns |-> "s1"]
    /\ base = [t \in Turns |-> IF t = 1 THEN db["s1"].history ELSE <<>>]
    /\ \E h \in SeqsUpTo(CodecMessages, MaxStored) :
           full_history = [t \in Turns |-> IF t = 1 THEN db["s1"].history \o h ELSE <<>>]
    /\ \E content \in Texts :
           message = [t \in Turns |-> IF t = 1 THEN Response(content, content # <<>>, <<>>)
                                      ELSE NoMessage]
    /\ rounds = [t \in Turns |-> 0]
    /\ pos = [t \in Turns |-> 0]
    /\ out = [t \in Turns |-> <<>>]
    /\ commits = [t \in Turns |-> 0]
    /\ sent = [t \in Turns |-> <<>>]
    /\ Started

NextCodec ==
    \/ Yields
    \/ Persists

SpecCodec == InitCodec /\ [][NextCodec]_vars

\* The two messages agree on every key, present or absent.
SameMessage(a, b) ==
    /\ a.role = b.role
    /\ a.has = b.has
    /\ a.content = b.content
    /\ a.tool_calls = b.tool_calls
    /\ a.tool_call_id = b.tool_call_id

\* C13: the list read back from the stored text of a history equals the
\* list that was stored, message by message: each key is present after the
\* round trip exactly when it was present before (an absent tool_calls does
\* not come back as an empty list, nor an empty list as absent), and a
\* second round trip changes nothing.
C13_RoundTrip ==
    [][\A t \in Turns :
        Persisting(t) =>
            LET final == Append(full_history[t], Dict("assistant", Content(message[t])))
                stored == db'[session_id[t]].history
            IN  /\ Len(stored) = Len(final)
                /\ \A i \in 1..Len(final) : SameMessage(stored[i], final[i])
                /\ Stored(stored) = stored]_vars

\* A stored history with a message without tool_calls, a message with an
\* empty tool_calls list and a message without content.
C13_Witness ==
    \E t \in Turns :
        /\ pc[t] = "done"
        /\ LET h == db[session_id[t]].history
           IN  /\ \E i \in 1..Len(h) : "tool_calls" \in h[i].has /\ h[i].tool_calls = <<>>
               /\ \E i \in 1..Len(h) : "tool_calls" \in h[i].has /\ h[i].tool_calls # <<>>
                                         /\ "content" \notin h[i].has
               /\ \E i \in 1..Len(h) : "tool_calls" \notin h[i].has

\* ---------------------------------------------------------- history replay
\* The loop of get_session_history() over history[1:]: tool messages are
\* skipped, every other message gives its role and its content or "".
RECURSIVE formatted_messages(_)
formatted_messages(history) ==
    IF history = <<>> THEN <<>>
    ELSE IF Head(history).role = "tool" THEN formatted_messages(Tail(history))
    ELSE <<[role |-> Head(history).role, content |-> Content(Head(history))]>>
         \o formatted_messages(Tail(history))

\* GET /api/sessions/{session_id}: reads, and changes nothing.
\* A variant of get_session_history that looks the row up by its id alone.
get_session_history_unfiltered(sid, user) ==
    IF db[sid] = NoRow
    THEN [status |-> 404, body |-> <<>>]
    ELSE [status |-> 200,
          body |-> formatted_messages(IF db[sid].history = <<>> THEN <<>>
                                      ELSE Tail(db[sid].history))]

get_session_history(sid, user) ==
    IF db[sid] = NoRow \/ db[sid].user_id # user
    THEN [status |-> 404, body |-> <<>>]
    ELSE [status |-> 200,
          body |-> formatted_messages(IF db[sid].history = <<>> THEN <<>>
                                      ELSE Tail(db[sid].history))]

\* C14: the replay of a stored session holds no message of role system or
\* tool.
C14_ReplayHidesSystemAndTool ==
    \A s \in Rows :
        LET replay == get_session_history(s, db[s].user_id)
        IN  /\ replay.status = 200
            /\ \A i \in 1..Len(replay.body) : replay.body[i].role \notin {"system", "tool"}

\* ------------------------------------------------------------ a second user
\* A chat request of another user.
StartOther ==
    \E t \in Turns, user \in Users \ ChatUsers, given \in GivenIds,
       messages \in SeqsUpTo({Dict("user", <<"q1">>)}, MaxMessages) :
        ChatStart(t, user, given, messages)

NextUsers ==
    \/ Next
    \/ StartOther

SpecUsers == Init /\ [][NextUsers]_vars

\* C15: a chat request whose session id names no session of the requesting
\* user creates a session owned by that user, with the system message as
\* its whole history, and proceeds to the model, whatever the id: also the
\* id of a session of another user.
C15_UnknownIdCreatesSession ==
    [][\A t \in Turns :
        (pc[t] = "idle" /\ pc'[t] # "idle") =>
            LET sid == session_id'[t]
                user == current_user'[t]
            IN  (db[sid] = NoRow \/ db[sid].user_id # user) =>
                    /\ pc'[t] = "await_model"
                    /\ db'[sid].user_id = user
                    /\ Len(db'[sid].history) = 1
                    /\ db'[sid].history[1].role = "system"]_vars

\* ------------------------------------------- replies that spell a tool call
\* A reply without tool calls whose text spells an invocation of a tool.
RecoverableText == <<"I will search. ", "keywords = \"python developer\"">>

RepliesRecoverable == \E t \in Turns : ModelReplies(t, RecoverableText, TRUE)

NextRecovery ==
    \/ Next
    \/ RepliesRecoverable

SpecRecovery == Init /\ [][NextRecovery]_vars

\* The text holds a fragment that reads as an invocation of a tool.
ToolLike(text) == \E i \in 1..Len(text) : text[i] = "keywords = \"python developer\""

\* The step takes a reply of the model that carries no tool call.
Replied(t) ==
    /\ pc[t] = "await_model" /\ pc'[t] # "error"
    /\ message'[t].tool_calls = <<>>
    /\ pc'[t] # pc[t] \/ message'[t] # message[t]

\* The first n symbols of a text.
Prefix(text, n) == SubSeq(text, 1, Min(n, Len(text)))

\* C16: a reply without tool calls and without a tool-like fragment in its
\* text runs no tool: the step that takes it leaves the history of the turn
\* and the tool rounds as they were and goes on to stream; the fragments
\* streamed are the text, unchanged, and the text is the content of the
\* assistant message the turn stores.
C16_NoFalseToolCall ==
    /\ [](\A t \in Turns :
            (pc[t] = "streaming" /\ ~ToolLike(Content(message[t]))) =>
                /\ message[t].tool_calls = <<>>
                /\ Flatten(out[t]) = Prefix(Content(message[t]), pos[t]))
    /\ [][\A t \in Turns :
            /\ (Replied(t) /\ ~ToolLike(Content(message'[t]))) =>
                   /\ pc'[t] = "streaming"
                   /\ rounds'[t] = rounds[t]
                   /\ full_history'[t] = full_history[t]
                   /\ db' = db
            /\ (Persisting(t) /\ ~ToolLike(Content(message[t]))) =>
                   /\ Last(db'[session_id[t]].history) = Dict("assistant", Content(message[t]))
                   /\ Flatten(out'[t]) = Content(message[t])]_vars

\* A turn that ran no tool has streamed a reply of two chunks and stored it
\* after the user message.
C16_Witness ==
    \E t \in Turns :
        /\ pc[t] = "done" /\ rounds[t] = 0
        /\ Flatten(out[t]) = Text(chunk_size + 1)
        /\ LET h == db[session_id[t]].history
           IN  /\ Len(h) = 3
               /\ h[2].role = "user"
               /\ h[3] = Dict("assistant", Text(chunk_size + 1))

\* C17: a reply without tool calls whose text spells a recoverable
\* invocation of a tool is not streamed as it is: the turn appends the raw
\* assistant message and a message with the tool result, and calls the
\* model once more.
C17_RecoveredToolCall ==
    [][\A t \in Turns :
        (Replied(t) /\ ToolLike(Content(message'[t]))) =>
            /\ pc'[t] = "await_model"
            /\ Len(full_history'[t]) = Len(full_history[t]) + 2
            /\ full_history'[t][Len(full_history[t]) + 1].role = "assistant"
            /\ HasContent(full_history'[t][Len(full_history[t]) + 1], Content(message'[t]))]_vars

\* --------------------------------------------------------- registered tools
\* The names of TOOLS, the tools offered to the model.
RegisteredTools == {"fetch_unipile_spec", "search_linkedin", "resolve_linkedin_location"}

\* C18: a tool call whose name is no registered tool fails the dispatch: no
\* turn goes on with a history that holds the request of such a call.
C18_UnknownToolFails ==
    \A t \in Turns :
        \A i \in 1..Len(full_history[t]) :
            \A k \in 1..Len(full_history[t][i].tool_calls) :
                full_history[t][i].tool_calls[k].name \in RegisteredTools

\* --------------------------------------------------------- missing settings
\* The environments of a process started without one of the settings, or
\* without any.
UnsetEnvs ==
    {Env(net, settings) : net \in {"up", "down"},
                          settings \in {Settings \ {"UNIPILE_API_KEY"}, {}}}

\* The tool-call lists of ToolCallLists, and a call of
\* resolve_linkedin_location whose location_name is a list.
UntypedCallLists(t, n) ==
    ToolCallLists(t, n) \cup
    { <<Call(t, n, 1, "resolve_linkedin_location", "{location_name: []}")>> }

ToolsUnset == \E t \in Turns, env \in UnsetEnvs :
                  \E tool_calls \in UntypedCallLists(t, rounds[t] + 1) :
                      ModelCallsTools(t, <<>>, tool_calls, env)

NextSettings ==
    \/ Start
    \/ Replies
    \/ ToolsUnset
    \/ Faults
    \/ Yields
    \/ Persists
    \/ Disconnects

SpecSettings == Init /\ [][NextSettings]_vars

\* The text of the result for missing settings.
MissingConfiguration ==
    json_dumps([raised |-> "", error |-> TRUE, body |-> "Missing configuration",
                requests |-> 0, sent |-> <<>>])

\* The call at index i of history h that tool_call_id names, if it is a
\* call of one of the two tools that need the settings.
NeedsSettings(h, id) ==
    \E i \in 1..Len(h) : \E k \in 1..Len(h[i].tool_calls) :
        /\ h[i].tool_calls[k].id = id
        /\ h[i].tool_calls[k].name \in {"search_linkedin", "resolve_linkedin_location"}

UpdateProfile(user, has_verify_json, new_verify_json) ==
    /\ verify_json' = IF has_verify_json
                      THEN [verify_json EXCEPT ![user] = new_verify_json]
                      ELSE verify_json
    /\ UNCHANGED <<accounts, console, template, sent, db, pc, current_user, session_id, base, full_history,
                   message, rounds, pos, out, commits>>

Profile ==
    \E user \in ChatUsers, has_verify_json \in BOOLEAN, new_verify_json \in BOOLEAN :
        UpdateProfile(user, has_verify_json, new_verify_json)

\* A chat request that carries a user message, or none.
StartPlain ==
    \E t \in Turns, user \in ChatUsers, given \in GivenIds,
       messages \in SeqsUpTo({Dict("user", <<"q1">>)}, MaxMessages) :
        ChatStart(t, user, given, messages)

NextProfile ==
    \/ StartPlain
    \/ Replies
    \/ Tools
    \/ Faults
    \/ Yields
    \/ Persists
    \/ Disconnects
    \/ Profile

SpecProfile == Init /\ [][NextProfile]_vars

\* C20: a turn stores as the content of the system message the prompt
\* composed from the flag its user had when the request came in: the
\* request puts that prompt in place of the content the session was stored
\* with, keeps it through the turn, and generate() writes it.
C20_PromptFollowsFlag ==
    [][\A t \in Turns :
        /\ (pc[t] = "idle" /\ pc'[t] = "await_model") =>
               full_history'[t][1] =
                   Dict("system", ComposePrompt(template, verify_json[current_user'[t]]))
        /\ (InFlight(t) /\ InFlight(t)') => full_history'[t][1] = full_history[t][1]
        /\ Persisting(t) => db'[session_id[t]].history[1] = full_history[t][1]]_vars

\* A turn on a session stored with the prompt of one flag runs with the
\* prompt of the other, after a turn on that session has persisted.
C20_Witness ==
    \E t \in Turns, u \in Turns :
        /\ pc[u] = "done" /\ commits[u] = 1 /\ session_id[u] = session_id[t]
        /\ pc[t] = "streaming"
        /\ base[t][1].content = ComposePrompt(template, FALSE)
        /\ full_history[t][1].content = ComposePrompt(template, TRUE)
        /\ ComposePrompt(template, TRUE) # ComposePrompt(template, FALSE)

\* ------------------------------------------------ tool calls on the event loop
\* chat() is a coroutine of the one event loop of the process, and the
\* executors call requests.get / requests.post, which do not yield to the
\* loop: from the moment a tool round sends its first request to the moment
\* its last response is in, no other coroutine runs.
Blocked == \E t \in Turns : pc[t] = "in_tool"

\* The model answers with tool calls and chat() enters the for loop over
\* them.
ToolBegin(t, tool_calls) ==
    /\ ~Blocked
    /\ pc[t] = "await_model"
    /\ RoundsAsked < MaxRounds
    /\ message' = [message EXCEPT ![t] = Response(<<>>, FALSE, tool_calls)]
    /\ pc' = [pc EXCEPT ![t] = "in_tool"]
    /\ UNCHANGED <<accounts, console, template, sent, verify_json, db, current_user, session_id, base,
                   full_history, rounds, pos, out, commits>>

\* The executors have returned, or one of the calls has raised.
ToolReturn(t, env) ==
    /\ pc[t] = "in_tool"
    /\ LET done == ExecuteTools(message[t].tool_calls, env)
       IN  IF done.raised # ""
           THEN /\ pc' = [pc EXCEPT ![t] = "error"]
                /\ out' = [out EXCEPT ![t] = <<ErrorFragment(done.raised)>>]
                /\ Release(t)
                /\ UNCHANGED rounds
           ELSE /\ pc' = [pc EXCEPT ![t] = "await_model"]
                /\ full_history' = [full_history EXCEPT ![t] =
                       Append(full_history[t], message[t]) \o done.outputs]
                /\ rounds' = [rounds EXCEPT ![t] = rounds[t] + 1]
                /\ sent' = [sent EXCEPT ![t] = done.sent]
                /\ UNCHANGED <<message, out, base, pos>>
    /\ UNCHANGED <<accounts, console, template, verify_json, db, current_user, session_id, commits>>

ToolBegins == \E t \in Turns : \E tool_calls \in ToolCallLists(t, rounds[t] + 1) :
                  ToolBegin(t, tool_calls)

ToolReturns == \E t \in Turns, env \in Envs : ToolReturn(t, env)

\* The steps of the coroutines of the process.
NextBlocking ==
    \/ ~Blocked /\ StartPlain
    \/ ~Blocked /\ Replies
    \/ ~Blocked /\ Faults
    \/ ~Blocked /\ Yields
    \/ ~Blocked /\ Persists
    \/ ~Blocked /\ Disconnects
    \/ ToolBegins
    \/ ToolReturns

SpecBlocking == Init /\ [][NextBlocking]_vars

\* A step of the turn t that the event loop can run.
TurnStep(t) ==
    /\ ~Blocked
    /\ \/ \E content \in Texts : ModelReplies(t, content, content # <<>>)
       \/ \E tool_calls \in ToolCallLists(t, rounds[t] + 1) : ToolBegin(t, tool_calls)
       \/ ModelFault(t)
       \/ GenYield(t)
       \/ GenPersist(t)

\* C21: while a turn waits on a tool-execution call, a running turn on
\* another session can take a step.
C21_ToolCallsSuspend ==
    \A t \in Turns, u \in Turns :
        (pc[t] = "in_tool" /\ InFlight(u) /\ session_id[u] # session_id[t]) =>
            ENABLED TurnStep(u)

\* ------------------------------------------- tool calls that come with text
\* A response of the model may carry text next to its tool calls; here the
\* text spells an invocation.
ToolsSaying == \E t \in Turns, env \in Envs :
                   \E tool_calls \in ToolCallLists(t, rounds[t] + 1) :
                       ModelCallsTools(t, RecoverableText, tool_calls, env)

NextNative ==
    \/ StartPlain
    \/ Replies
    \/ Tools
    \/ ToolsSaying
    \/ Faults
    \/ Yields
    \/ Persists
    \/ Disconnects

SpecNative == Init /\ [][NextNative]_vars

\* The ids of the tool calls of a response.
CallIds(msg) == {msg.tool_calls[k].id : k \in 1..Len(msg.tool_calls)}

\* A round of the tool loop of the turn t has completed.
Round(t) == rounds'[t] = rounds[t] + 1

\* C22: a response with tool calls has its text neither scanned for an
\* invocation nor sent to the caller: the round runs the structured calls
\* and no other, and the stream is the text of the last response, the one
\* without tool calls.
C22_NativeCallsAuthoritative ==
    /\ [](\A t \in Turns :
            pc[t] \in {"await_model", "streaming"} =>
                /\ ~ToolLike(Flatten(out[t]))
                /\ pc[t] = "await_model" => out[t] = <<>>
                /\ pc[t] = "streaming" =>
                       /\ message[t].tool_calls = <<>>
                       /\ Flatten(out[t]) = Prefix(Content(message[t]), pos[t]))
    /\ [][\A t \in Turns :
            /\ Round(t) =>
                   LET response == message'[t]
                       n == Len(full_history[t])
                       added == SubSeq(full_history'[t], n + 2, Len(full_history'[t]))
                   IN  /\ response.tool_calls # <<>>
                       /\ out'[t] = out[t]
                       /\ pc'[t] = "await_model"
                       /\ SubSeq(full_history'[t], 1, n) = full_history[t]
                       /\ full_history'[t][n + 1] = response
                       /\ Len(added) <= Len(response.tool_calls)
                       /\ \A i \in 1..Len(added) :
                              /\ added[i].role = "tool"
                              /\ added[i].tool_call_id \in CallIds(response)
            /\ Persisting(t) =>
                   /\ Flatten(out'[t]) = Content(message[t])
                   /\ message[t].tool_calls = <<>>]_vars

C22_Witness ==
    \E t \in Turns :
        /\ pc[t] = "done" /\ rounds[t] >= 1
        /\ Flatten(out[t]) = Text(chunk_size + 1)
        /\ LET h == db[session_id[t]].history
           IN  \E i \in 1..Len(h) :
                   /\ h[i].tool_calls # <<>>
                   /\ HasContent(h[i], RecoverableText)

\* ------------------------------------------------ the messages of a request
MaxIncoming == 2

\* The messages a stored history holds after the system message.
MergeStored == Incoming \cup {Dict("assistant", <<"q1">>)}

\* The user u1 has the session s1 with a history of up to MaxStored messages
\* after the system message; no request is running.
InitMerge ==
    /\ template = SYSTEM_PROMPT
    /\ verify_json = [u \in Users |-> FALSE]
    /\ \E h \in SeqsUpTo(MergeStored, MaxStored) :
           db = [s \in SessionIds |->
                   IF s = "s1"
                   THEN [user_id |-> "u1",
                         history |-> Stored(<<Dict("system", ComposePrompt(SYSTEM_PROMPT, FALSE))>> \o h)]
                   ELSE NoRow]
    /\ pc = [t \in Turns |-> "idle"]
    /\ current_user = [t \in Turns |-> "u1"]
    /\ session_id = [t \in Turns |-> "s1"]
    /\ base = [t \in Turns |-> <<>>]
    /\ full_history = [t \in Turns |-> <<>>]
    /\ message = [t \in Turns |-> NoMessage]
    /\ rounds = [t \in Turns |-> 0]
    /\ pos = [t \in Turns |-> 0]
    /\ out = [t \in Turns |-> <<>>]
    /\ commits = [t \in Turns |-> 0]
    /\ sent = [t \in Turns |-> <<>>]
    /\ Started

\* A chat request with up to MaxIncoming messages.
StartMerge ==
    \E t \in Turns, given \in GivenIds, messages \in SeqsUpTo(Incoming, MaxIncoming) :
        ChatStart(t, "u1", given, messages)

NextMerge == StartMerge

SpecMerge == InitMerge /\ [][NextMerge]_vars

\* The history the request with these messages is about to send to the model
\* is the loaded one, followed by the last message of the request unless one
\* of the last two loaded messages has its role and content.
Merged(loaded, h, messages) ==
    LET n == Len(loaded)
    IN  /\ Len(h) \in {n, n + 1}
        /\ SubSeq(h, 1, n) = loaded
        /\ messages = <<>> => Len(h) = n
        /\ messages # <<>> =>
               LET last == messages[Len(messages)]
                   seen == \E i \in 1..n :
                               /\ i >= n - 1
                               /\ loaded[i].role = last.role
                               /\ HasContent(loaded[i], last.content)
               IN  /\ Len(h) = n + 1 <=> ~seen
                   /\ Len(h) = n + 1 => h[n + 1] = last

\* C23: a chat request adds at most its last message, and only when neither
\* of the last two stored messages has the same role and content; its earlier
\* messages are ignored and an empty list adds nothing.
C23_LastIncomingOnly ==
    [][\A t \in Turns, given \in SessionIds \cup {""},
          messages \in SeqsUpTo(Incoming, MaxIncoming) :
            (ChatStart(t, "u1", given, messages) /\ pc'[t] = "await_model") =>
                Merged(db'[session_id'[t]].history, full_history'[t], messages)]_vars

C23_Witness ==
    \E t \in Turns :
        /\ pc[t] = "await_model"
        /\ Len(db[session_id[t]].history) = 3
        /\ Len(full_history[t]) = 4
        /\ full_history[t][4] = Dict("user", <<"q2">>)
        /\ full_history[t][3] = Dict("user", <<"q1">>)

\* ------------------------------------------------------- the sessions of a user
title_size == 50

\* GET /api/sessions: the id and the title of every session of the user.
get_sessions(user) ==
    {[id |-> s,
      title |-> IF Len(db[s].history) > 1
                THEN (IF "content" \in db[s].history[2].has
                      THEN Prefix(db[s].history[2].content, title_size)
                      ELSE <<"New Chat">>)
                ELSE <<"New Chat">>] : s \in {r \in SessionIds : db[r] # NoRow /\ db[r].user_id = user}}

\* C24: a user never obtains and never changes the history of a session of
\* another user, the owner of a stored session never changes, and the
\* retrieval of a session by a user who does not own it gives 404.
C24_SessionIsolation ==
    /\ [](\A s \in Rows, user \in Users :
            user # db[s].user_id =>
                /\ get_session_history(s, user) = [status |-> 404, body |-> <<>>]
                /\ \A e \in get_sessions(user) : e.id # s)
    /\ [](\A t \in Turns :
            InFlight(t) =>
                /\ db[session_id[t]].user_id = current_user[t]
                /\ base[t] # <<>>)
    /\ [][\A s \in SessionIds :
            /\ db[s] # NoRow =>
                   /\ db'[s].user_id = db[s].user_id
                   /\ db'[s].history # db[s].history =>
                          \E t \in Turns : /\ Persisting(t)
                                           /\ session_id[t] = s
                                           /\ current_user[t] = db[s].user_id
            /\ (db[s] = NoRow /\ db'[s] # NoRow) =>
                   \E t \in Turns : /\ pc[t] = "idle" /\ pc'[t] = "await_model"
                                    /\ session_id'[t] = s
                                    /\ current_user'[t] = db'[s].user_id]_vars

C24_Witness ==
    \E t \in Turns, u \in Turns :
        /\ pc[t] = "done" /\ current_user[t] = "u1"
        /\ Len(db[session_id[t]].history) >= 3
        /\ db[session_id[t]].user_id = "u1"
        /\ pc[u] = "error" /\ current_user[u] = "u2"
        /\ session_id[u] = session_id[t]
        /\ get_sessions("u1") # {} /\ get_sessions("u2") = {}

\* ------------------------------------------------- the request of a search
\* The model asks for one search, with arguments of every kind.
SearchCallLists(t, n) ==
    {<<Call(t, n, 1, "search_linkedin", arguments)>> :
         arguments \in SearchArguments \cup {"{limit: \"ten\"}"}}

ToolsSearch == \E t \in Turns, env \in Envs :
                   \E tool_calls \in SearchCallLists(t, rounds[t] + 1) :
                       ModelCallsTools(t, <<>>, tool_calls, env)

NextSearch ==
    \/ StartPlain
    \/ Replies
    \/ ToolsSearch
    \/ Faults
    \/ Yields
    \/ Persists
    \/ Disconnects

SpecSearch == Init /\ [][NextSearch]_vars

\* The turn t has run a search and waits for the model again.
Searched(t) == pc[t] = "await_model" /\ rounds[t] >= 1

MaxInputs == 2

\* The user messages chat_loop has taken so far.
Inputs == Len(SelectSeq(loop_messages, LAMBDA msg : msg.role = "user"))

\* console.print renders its text as markup: a closing tag that matches no
\* open one raises MarkupError, whose text quotes the tag.
HasClosingTag(text) == text \in {"{keywords: [/b]}", "MarkupError"}

\* The tool calls of a first response: the model knows search_linkedin only,
\* but may name another tool.
LoopCallLists(n) ==
    { <<Call(0, n, 1, "search_linkedin", "{keywords}")>>,
      <<Call(0, n, 1, "search_linkedin", "malformed")>>,
      <<Call(0, n, 1, "search_linkedin", "{limit: \"ten\"}")>>,
      <<Call(0, n, 1, "search_linkedin", "{keywords: [/b]}")>>,
      <<Call(0, n, 1, "get_candidate", "{}")>>,
      <<Call(0, n, 1, "search_linkedin", "malformed"),
        Call(0, n, 2, "search_linkedin", "{keywords}")>> }

\* The try block of one search_linkedin call: the exception it raises, or ""
\* and the result.
TryCall(tool_call, env) ==
    IF JsonLoadsRaises(tool_call.arguments)
    THEN [raised |-> "JSONDecodeError", content |-> <<>>]
    ELSE IF HasClosingTag(tool_call.arguments)
    THEN [raised |-> "MarkupError", content |-> <<>>]
    ELSE IF LimitNotNumber(tool_call.arguments) /\ env.settings = Settings
    THEN [raised |-> "TypeError", content |-> <<>>]
    ELSE [raised |-> "",
          content |-> json_dumps(search_linkedin(json_loads(tool_call.arguments), env))]

\* One pass of the for loop: the tool message it appends, or the exception
\* that leaves the except clause of the call.
LoopCall(tool_call, env) ==
    IF tool_call.name # "search_linkedin" THEN [raised |-> "", outputs |-> <<>>]
    ELSE LET try == TryCall(tool_call, env)
         IN  IF try.raised = ""
             THEN [raised |-> "", outputs |-> <<ToolOutput(tool_call.id, try.content)>>]
             ELSE IF HasClosingTag(try.raised)
             THEN [raised |-> "MarkupError", outputs |-> <<>>]
             ELSE [raised |-> "",
                   outputs |-> <<ToolOutput(tool_call.id, <<"Error: ", try.raised>>)>>]

\* The for loop over msg.tool_calls, up to the call whose handler raises.
RECURSIVE LoopCalls(_, _)
LoopCalls(tool_calls, env) ==
    IF tool_calls = <<>> THEN [raised |-> "", outputs |-> <<>>]
    ELSE LET first == LoopCall(Head(tool_calls), env)
             rest == LoopCalls(Tail(tool_calls), env)
         IN  IF first.raised # "" THEN first
             ELSE [raised |-> rest.raised, outputs |-> first.outputs \o rest.outputs]

\* The user types a line: exit or quit leave the loop, any other line is the
\* next user message.
Input(line) ==
    /\ loop = "input"
    /\ Inputs < MaxInputs
    /\ IF line \in {"exit", "quit"}
       THEN /\ loop' = "exited"
            /\ UNCHANGED <<loop_messages, model_calls>>
       ELSE /\ loop_messages' = Append(loop_messages, Dict("user", <<line>>))
            /\ loop' = "first_call"
            /\ model_calls' = 0
    /\ UNCHANGED <<chats, accounts>>

\* The first model call answers without tool calls.
FirstReply(content) ==
    /\ loop = "first_call"
    /\ loop_messages' = Append(loop_messages, Response(content, TRUE, <<>>))
    /\ model_calls' = model_calls + 1
    /\ loop' = "input"
    /\ UNCHANGED <<chats, accounts>>

\* The first model call answers with tool calls and chat_loop runs them.  An
\* exception that leaves the except clause of a call reaches the outer one,
\* whose console.print raises on the same text: chat_loop ends.
FirstCalls(tool_calls, env) ==
    /\ loop = "first_call"
    /\ LET msg == Response(<<>>, FALSE, tool_calls)
           done == LoopCalls(tool_calls, env)
       IN  /\ loop_messages' = Append(loop_messages, msg) \o done.outputs
           /\ loop' = IF done.raised = "" THEN "second_call"
                      ELSE IF HasClosingTag(done.raised) THEN "crashed"
                      ELSE "input"
    /\ model_calls' = model_calls + 1
    /\ UNCHANGED <<chats, accounts>>

\* The second model call interprets the results.
SecondReply(content) ==
    /\ loop = "second_call"
    /\ loop_messages' = Append(loop_messages, Response(content, TRUE, <<>>))
    /\ model_calls' = model_calls + 1
    /\ loop' = "input"
    /\ UNCHANGED <<chats, accounts>>

\* A model call raises: the outer except clause prints the error and the
\* loop asks for the next line.
LoopFault ==
    /\ loop \in {"first_call", "second_call"}
    /\ model_calls' = model_calls + 1
    /\ loop' = "input"
    /\ UNCHANGED <<loop_messages, chats, accounts>>

\* Ctrl-C.
KeyboardInterrupt ==
    /\ loop \in {"input", "first_call", "second_call"}
    /\ loop' = "exited"
    /\ UNCHANGED <<loop_messages, model_calls, chats, accounts>>

Inputting == \E line \in {"find", "more", "exit"} : Input(line)
FirstReplies == \E content \in Texts : FirstReply(content)
FirstCalling == \E env \in Envs \cup UnsetEnvs :
                    \E tool_calls \in LoopCallLists(Inputs) : FirstCalls(tool_calls, env)
SecondReplies == \E content \in Texts : SecondReply(content)

NextLoop ==
    \/ Inputting
    \/ FirstReplies
    \/ FirstCalling
    \/ SecondReplies
    \/ LoopFault
    \/ KeyboardInterrupt

SpecLoop == Init /\ [][NextLoop]_vars

\* The first response of the input at hand: the last message with tool calls.
FirstResponse ==
    CHOOSE i \in 1..Len(loop_messages) :
        /\ loop_messages[i].tool_calls # <<>>
        /\ \A j \in (i + 1)..Len(loop_messages) : loop_messages[j].tool_calls = <<>>

\* C26: chat_loop makes at most two model calls per input; when it makes the
\* second, every search_linkedin call of the first response has exactly one
\* tool message with its id, the result or an "Error: ..." text; and a fault
\* of a tool call never ends the loop.
C26_LoopAnswersSearches ==
    /\ model_calls <= 2
    /\ loop = "second_call" =>
           LET i == FirstResponse
               msg == loop_messages[i]
           IN  \A k \in 1..Len(msg.tool_calls) :
                   msg.tool_calls[k].name = "search_linkedin" =>
                       Cardinality({j \in (i + 1)..Len(loop_messages) :
                           /\ loop_messages[j].role = "tool"
                           /\ loop_messages[j].tool_call_id = msg.tool_calls[k].id}) = 1
    /\ loop # "crashed"

\* ------------------------------------------------------------- the accounts
\* POST /api/auth/signup: 400 when the email is registered.
signup(email, password) ==
    /\ users[email] = NoUser
    /\ users' = [users EXCEPT ![email] = User(password, FALSE, FALSE)]
    /\ UNCHANGED <<tokens, chats, console>>

\* A variant of login that does not look at is_approved.
login_unchecked(email, password) ==
    /\ users[email] # NoUser
    /\ users[email].hashed_password = password
    /\ tokens' = tokens \cup {email}
    /\ UNCHANGED <<users, chats, console>>

\* POST /api/auth/login: 401 for an unknown email or a wrong password, 403 for
\* an account that is not approved, else a token for the email.
login(email, password) ==
    /\ users[email] # NoUser
    /\ users[email].hashed_password = password
    /\ users[email].is_approved
    /\ tokens' = tokens \cup {email}
    /\ UNCHANGED <<users, chats, console>>

\* get_current_admin_user: the bearer of a token whose user is an admin.
IsAdmin(admin) == admin \in tokens /\ users[admin] # NoUser /\ users[admin].is_admin

\* POST /api/admin/users
create_user_admin(admin, email, password) ==
    /\ IsAdmin(admin)
    /\ users[email] = NoUser
    /\ users' = [users EXCEPT ![email] = User(password, FALSE, TRUE)]
    /\ UNCHANGED <<tokens, chats, console>>

\* PUT /api/admin/users/{user_id}/approve
approve_user(admin, email) ==
    /\ IsAdmin(admin)
    /\ users[email] # NoUser
    /\ users' = [users EXCEPT ![email].is_approved = TRUE]
    /\ UNCHANGED <<tokens, chats, console>>

\* PUT /api/admin/users/{user_id}
update_user(admin, email, is_admin, password) ==
    /\ IsAdmin(admin)
    /\ users[email] # NoUser
    /\ users' = [users EXCEPT ![email].is_admin = is_admin,
                              ![email].hashed_password = password]
    /\ UNCHANGED <<tokens, chats, console>>

\* DELETE /api/admin/users/{user_id}
delete_user(admin, email) ==
    /\ IsAdmin(admin)
    /\ users[email] # NoUser
    /\ users' = [users EXCEPT ![email] = NoUser]
    /\ UNCHANGED <<tokens, chats, console>>

\* The server starts again: the admin is seeded unless the row is there.
startup_seed_admin ==
    /\ users[admin_email] = NoUser
    /\ users' = [users EXCEPT ![admin_email] = User("admin123", TRUE, TRUE)]
    /\ UNCHANGED <<tokens, chats, console>>

\* create_admin.py: the operator creates an admin, or promotes the user of
\* the email.
create_admin(email, password) ==
    /\ users' = [users EXCEPT ![email] =
                    IF users[email] = NoUser THEN User(password, TRUE, TRUE)
                    ELSE [users[email] EXCEPT !.is_admin = TRUE, !.is_approved = TRUE]]
    /\ UNCHANGED <<tokens, chats, console>>

Signups == \E email \in Emails, password \in Passwords : signup(email, password)
Logins == \E email \in Emails, password \in Passwords : login(email, password)
Creations == \E admin \in Emails, email \in Emails, password \in Passwords :
                 create_user_admin(admin, email, password)
Approvals == \E admin \in Emails, email \in Emails : approve_user(admin, email)
Updates == \E admin \in Emails, email \in Emails, is_admin \in BOOLEAN, password \in Passwords :
               update_user(admin, email, is_admin, password)
Deletions == \E admin \in Emails, email \in Emails : delete_user(admin, email)
Promotions == \E email \in Emails, password \in Passwords : create_admin(email, password)

NextAccounts ==
    \/ Signups
    \/ Logins
    \/ Creations
    \/ Approvals
    \/ Updates
    \/ Deletions
    \/ startup_seed_admin
    \/ Promotions

SpecAccounts == Init /\ [][NextAccounts]_vars

\* The row of the email becomes an approved one.
Approved(email) ==
    /\ users'[email] # NoUser /\ users'[email].is_approved
    /\ users[email] = NoUser \/ ~users[email].is_approved

\* C27: a user made by signup is neither approved nor an admin; login issues
\* a token only for an approved user; and a row becomes approved only by the
\* approve action of an admin, by the user creation of an admin or by the
\* seeding of an admin.
C27_ApprovalGatesLogin ==
    [][/\ \A email \in Emails, password \in Passwords :
              signup(email, password) =>
                  /\ users[email] = NoUser
                  /\ ~users'[email].is_approved
                  /\ ~users'[email].is_admin
       /\ \A email \in Emails :
              (email \in tokens' /\ email \notin tokens) =>
                  /\ users[email] # NoUser
                  /\ users[email].is_approved
                  /\ users' = users
       /\ \A email \in Emails :
              Approved(email) =>
                  \/ \E admin \in Emails : approve_user(admin, email)
                  \/ \E admin \in Emails, password \in Passwords :
                         create_user_admin(admin, email, password)
                  \/ startup_seed_admin
                  \/ \E password \in Passwords : create_admin(email, password)]_vars

C27_Witness ==
    /\ "a@example.com" \in tokens
    /\ users["a@example.com"].is_approved /\ ~users["a@example.com"].is_admin
    /\ users["b@example.com"] = User("secret", FALSE, FALSE)
    /\ "b@example.com" \notin tokens
=============================================================================
